---- MODULE Spec2Model ----
(***************************************************************************)
(* The RFM (Recency-Frequency-Monetary) section of the Olist dashboard,    *)
(* src/dashboard/streamlit.py lines 72-79 and 255-394, as a state machine. *)
(* The script runs top to bottom; every block of statements that builds one *)
(* table is one action, and pc names the block that runs next.             *)
(*                                                                         *)
(* Tables (pandas DataFrames) are sequences of records, one record per     *)
(* row, in the row order pandas gives them.  Money is counted in whole     *)
(* units, timestamps in ticks of 1/TicksPerDay day.  Results of float      *)
(* divisions are kept exact as [num, den] pairs; 0/0 is NaN.               *)
(***************************************************************************)
EXTENDS Integers, Sequences, FiniteSets, TLC

VARIABLES pc, filtered_orders, df_order_items, data_orders, df_rfm,
          selected_segments, data_rfm_summary,
          score, segment   \* argument and result of a lone call of rfm_segment

vars == <<pc, filtered_orders, df_order_items, data_orders, df_rfm,
          selected_segments, data_rfm_summary, score, segment>>

(***************************************************************************)
(* Bounds of the model.                                                    *)
(***************************************************************************)
\* rows of filtered_orders in a run that starts from the raw tables
MaxOrders == 2
\* rows of data_orders in a run that starts from the customer profiles
MaxCustomers == 3
\* rows of data_orders in a run that starts from the plain customer profiles
MaxScored == 4

\* pd.Timedelta(days=1) in ticks; a timestamp has a time of day
TicksPerDay == 2
\* pandas' missing timestamp (pd.to_datetime of a missing value)
NaT == -1
\* pandas' missing number (the unmatched side of a left merge)
NaN == -1

\* order_purchase_timestamp values, in ticks
Timestamps == {0, 3}
Statuses == {"delivered", "canceled"}

(***************************************************************************)
(* Generic helpers for tables.                                             *)
(***************************************************************************)
Range(s) == {s[i] : i \in 1..Len(s)}

RECURSIVE SumSeq(_)
SumSeq(s) == IF s = <<>> THEN 0 ELSE Head(s) + SumSeq(Tail(s))

Max(S) == CHOOSE x \in S : \A y \in S : y <= x
Min(S) == CHOOSE x \in S : \A y \in S : x <= y

\* numpy's sort of a short column is an insertion sort, hence stable:
\* the permutation that orders keys ascending, ties in their original order
StableArgsort(keys) ==
  [k \in 1..Len(keys) |->
     CHOOSE i \in 1..Len(keys) :
        Cardinality({j \in 1..Len(keys) :
                       \/ keys[j] < keys[i]
                       \/ (keys[j] = keys[i] /\ j < i)}) = k - 1]

\* DataFrame.sort_values(by=..., ascending=True) with missing keys last
SortAscending(t, keys) ==
  LET p == StableArgsort(keys) IN [k \in 1..Len(t) |-> t[p[k]]]

\* DataFrame.sort_values(by=..., ascending=False): pandas reverses, sorts
\* ascending and reverses again, so ties keep their original order
SortDescending(t, keys) ==
  SortAscending(t, [i \in 1..Len(keys) |-> 0 - keys[i]])

\* a set of rows with distinct keys as a table; before holds the pairs
\* <<a, b>> of rows with a ahead of b
SetToTable(S, before) ==
  [k \in 1..Cardinality(S) |->
     CHOOSE r \in S : Cardinality({r2 \in S : <<r2, r>> \in before}) = k - 1]

(***************************************************************************)
(* Lines 72-79: total_value and the per-(order, product, shipping date)    *)
(* table df_order_items_.                                                  *)
(***************************************************************************)
\* df_order_items["total_value"] = price + freight_value
WithTotalValue(items) ==
  [i \in 1..Len(items) |->
     [order_id |-> items[i].order_id,
      product_id |-> items[i].product_id,
      shipping_limit_date |-> items[i].shipping_limit_date,
      price |-> items[i].price,
      freight_value |-> items[i].freight_value,
      total_value |-> items[i].price + items[i].freight_value]]

ItemKey(r) == <<r.order_id, r.product_id, r.shipping_limit_date>>

KeyLess(a, b) ==
  \/ a.order_id < b.order_id
  \/ /\ a.order_id = b.order_id
     /\ \/ a.product_id < b.product_id
        \/ /\ a.product_id = b.product_id
           /\ a.shipping_limit_date < b.shipping_limit_date

\* groupby(["order_id", "product_id", "shipping_limit_date"]).agg(...)
df_order_items_(items) ==
  LET tv == WithTotalValue(items)
      Group(k) == SelectSeq(tv, LAMBDA r : ItemKey(r) = k)
      Col(g, f) == [i \in 1..Len(g) |-> g[i][f]]
      rows == {[order_id |-> k[1], product_id |-> k[2],
                shipping_limit_date |-> k[3],
                product_counts |-> Len(Group(k)),
                total_price |-> SumSeq(Col(Group(k), "price")),
                total_value |-> SumSeq(Col(Group(k), "total_value"))]
               : k \in {ItemKey(r) : r \in Range(tv)}}
  IN SetToTable(rows, {p \in rows \X rows : KeyLess(p[1], p[2])})

(***************************************************************************)
(* Lines 255-267: data_orders, one row per customer with a delivered       *)
(* order.                                                                  *)
(***************************************************************************)
MergedRow(o, price, value) ==
  [order_id |-> o.order_id,
   customer_id |-> o.customer_id,
   order_status |-> o.order_status,
   order_purchase_timestamp |-> o.order_purchase_timestamp,
   total_price |-> price,
   total_value |-> value]

\* the rows one order contributes to merge(..., how="left", on="order_id"):
\* one per matching row of the right table, or one with missing numbers
MergeRowsOf(o, right) ==
  LET m == SelectSeq(right, LAMBDA r : r.order_id = o.order_id)
  IN IF m = <<>>
       THEN <<MergedRow(o, NaN, NaN)>>
       ELSE [i \in 1..Len(m) |-> MergedRow(o, m[i].total_price, m[i].total_value)]

RECURSIVE MergeLeft(_, _)
MergeLeft(left, right) ==
  IF left = <<>> THEN <<>>
  ELSE MergeRowsOf(Head(left), right) \o MergeLeft(Tail(left), right)

\* agg "max" of a timestamp column: missing values are skipped
MaxTimestamp(col) ==
  LET present == {col[i] : i \in 1..Len(col)} \ {NaT}
  IN IF present = {} THEN NaT ELSE Max(present)

\* agg "count" in place of "nunique": one per merged row
CountRows(col) == Len(col)

\* agg "nunique"
NUnique(col) == Cardinality(Range(col))

\* agg "sum" of a number column: missing values are skipped
SumSkipNaN(col) == SumSeq(SelectSeq(col, LAMBDA x : x # NaN))

\* summing total_value (price + freight_value) in place of total_price
MonetaryOfTotalValue(r) == r.total_value

\* the column of the merged table that agg sums into total_price
MonetaryOf(r) == r.total_price

CustomerLess(a, b) == a.customer_id < b.customer_id

\* the query left out: every merged row is kept
AnyStatus(r) == TRUE

\* query('order_status == "delivered"')
IsDelivered(r) == r.order_status = "delivered"

DataOrders(orders, items) ==
  LET merged == MergeLeft(orders, df_order_items_(items))
      delivered == SelectSeq(merged, IsDelivered)
      Group(c) == SelectSeq(delivered, LAMBDA r : r.customer_id = c)
      Row(c) ==
        LET g == Group(c) IN
        [customer_id |-> c,
         last_purchase_date |->
           MaxTimestamp([i \in 1..Len(g) |-> g[i].order_purchase_timestamp]),
         order_count |-> NUnique([i \in 1..Len(g) |-> g[i].order_id]),
         total_price |-> SumSkipNaN([i \in 1..Len(g) |-> MonetaryOf(g[i])])]
      rows == {Row(c) : c \in {r.customer_id : r \in Range(delivered)}}
      grouped == SetToTable(rows, {p \in rows \X rows : CustomerLess(p[1], p[2])})
  IN SortDescending(grouped, [i \in 1..Len(grouped) |-> grouped[i].order_count])

(***************************************************************************)
(* Lines 269-326: recency, the quantile breakpoints and the three scores.  *)
(***************************************************************************)
\* the exact value num/den of a float division; 0/0 is NaN
Frac(n, d) == [num |-> n, den |-> d]
IsNaN(x) == x.den = 0

\* the anchor without the added day
RecencyDateNoDay(dates) == MaxTimestamp(dates)

\* recency_date = df_rfm["last_purchase_date"].max() + pd.Timedelta(days=1)
RecencyDate(dates) ==
  LET m == MaxTimestamp(dates) IN IF m = NaT THEN NaT ELSE m + TicksPerDay

\* (recency_date - x).days, then fillna(0).astype(int)
Recency(anchor, x) ==
  IF anchor = NaT \/ x = NaT THEN 0 ELSE (anchor - x) \div TicksPerDay

\* Series.quantile(k/5), k = 1..4, linear interpolation between the order
\* statistics around position (n - 1) * k / 5; NaN for an empty column
Quantile(col, k) ==
  LET n == Len(col)
      sorted == SortAscending(col, col)
      pos5 == (n - 1) * k
      lo == sorted[(pos5 \div 5) + 1]
      hi == sorted[IF pos5 % 5 = 0 THEN (pos5 \div 5) + 1 ELSE (pos5 \div 5) + 2]
  IN IF n = 0 THEN Frac(0, 0)
     ELSE Frac(5 * lo + (hi - lo) * (pos5 % 5), 5)

\* Series.quantile([0.2, 0.4, 0.6, 0.8]): entry k is the k/5 quantile
Quartiles(col) == [k \in 1..4 |-> Quantile(col, k)]

\* value >= q for an integer value and a breakpoint q (false for NaN)
AtLeast(value, q) == ~IsNaN(q) /\ value * q.den >= q.num

\* recency scored in the direction of frequency and monetary
r_score_uninverted(value, r_quartiles) ==
  IF AtLeast(value, r_quartiles[4]) THEN 5
  ELSE IF AtLeast(value, r_quartiles[3]) THEN 4
  ELSE IF AtLeast(value, r_quartiles[2]) THEN 3
  ELSE IF AtLeast(value, r_quartiles[1]) THEN 2
  ELSE 1

r_score(value, r_quartiles) ==
  IF AtLeast(value, r_quartiles[4]) THEN 1
  ELSE IF AtLeast(value, r_quartiles[3]) THEN 2
  ELSE IF AtLeast(value, r_quartiles[2]) THEN 3
  ELSE IF AtLeast(value, r_quartiles[1]) THEN 4
  ELSE 5

\* f_score with > in place of >=
f_score_strict(value, f_quartiles) ==
  LET Above(q) == ~IsNaN(q) /\ value * q.den > q.num IN
  IF Above(f_quartiles[4]) THEN 5
  ELSE IF Above(f_quartiles[3]) THEN 4
  ELSE IF Above(f_quartiles[2]) THEN 3
  ELSE IF Above(f_quartiles[1]) THEN 2
  ELSE 1

f_score(value, f_quartiles) ==
  IF AtLeast(value, f_quartiles[4]) THEN 5
  ELSE IF AtLeast(value, f_quartiles[3]) THEN 4
  ELSE IF AtLeast(value, f_quartiles[2]) THEN 3
  ELSE IF AtLeast(value, f_quartiles[1]) THEN 2
  ELSE 1

m_score(value, m_quartiles) ==
  IF AtLeast(value, m_quartiles[4]) THEN 5
  ELSE IF AtLeast(value, m_quartiles[3]) THEN 4
  ELSE IF AtLeast(value, m_quartiles[2]) THEN 3
  ELSE IF AtLeast(value, m_quartiles[1]) THEN 2
  ELSE 1

\* the digits joined in the wrong order
RFM_Score_Swapped(r, f, m) == ToString(f) \o ToString(r) \o ToString(m)

\* R_Score.astype(str) + F_Score.astype(str) + M_Score.astype(str)
RFM_Score(r, f, m) == ToString(r) \o ToString(f) \o ToString(m)

(***************************************************************************)
(* Lines 328-358: the segment of an RFM code.                              *)
(***************************************************************************)
\* the Champions list with "454" in place of its second "545"
ChampionsCodesNoRepeat == {"555", "554", "545", "544", "454", "455", "445"}
ChampionsCodes == {"555", "554", "545", "544", "545", "455", "445"}
\* the Loyal list with "345" mistyped as "346"
LoyalCodesTypo == {"543", "444", "435", "355", "354", "346", "344", "335"}
LoyalCodes == {"543", "444", "435", "355", "354", "345", "344", "335"}
PotentialLoyalistCodes ==
  {"553", "551", "552", "541", "542", "533", "532", "531", "452", "451", "442", "441",
   "431", "453", "433", "432", "423", "353", "352", "351", "342", "341", "333", "323"}
PromisingCodes ==
  {"525", "524", "523", "522", "521", "515", "514", "513", "425", "424", "413", "414",
   "415", "315", "314", "313"}
NewCustomersCodes == {"512", "511", "422", "421", "412", "411", "311"}
NeedAttentionCodes == {"535", "534", "443", "434", "343", "334", "325", "324"}
AboutToSleepCodes == {"331", "321", "312", "221", "213", "231", "241", "251"}
AtRiskCodes ==
  {"255", "254", "245", "244", "243", "252", "243", "242", "235", "234", "225", "224",
   "153", "152", "145", "143", "142", "135", "134", "133", "125", "124"}
CannotLoseThemCodes == {"155", "154", "144", "214", "215", "115", "114", "113"}
HibernatingCodes ==
  {"332", "322", "233", "232", "223", "222", "132", "123", "122", "212", "211"}
LostCustomersCodes == {"111", "112", "121", "131", "141", "151"}

rfm_segment(code) ==
  IF code \in ChampionsCodes THEN "Champions"
  ELSE IF code \in LoyalCodes THEN "Loyal"
  ELSE IF code \in PotentialLoyalistCodes THEN "Potential Loyalist"
  ELSE IF code \in PromisingCodes THEN "Promising"
  ELSE IF code \in NewCustomersCodes THEN "New Customers"
  ELSE IF code \in NeedAttentionCodes THEN "Need Attention"
  ELSE IF code \in AboutToSleepCodes THEN "About To Sleep"
  ELSE IF code \in AtRiskCodes THEN "At Risk"
  ELSE IF code \in CannotLoseThemCodes THEN "Cannot Lose Them"
  ELSE IF code \in HibernatingCodes THEN "Hibernating Customers"
  ELSE IF code \in LostCustomersCodes THEN "Lost Customers"
  ELSE "Other"

\* df_rfm of lines 270-358 from data_orders
DfRfm(orders) ==
  LET Col(t, f) == [i \in 1..Len(t) |-> t[i][f]]
      dates == Col(orders, "last_purchase_date")
      \* sort_values(by="last_purchase_date", ascending=True), NaT last
      late == IF MaxTimestamp(dates) = NaT THEN 0 ELSE MaxTimestamp(dates) + 1
      sorted == SortAscending(orders,
                  [i \in 1..Len(dates) |-> IF dates[i] = NaT THEN late ELSE dates[i]])
      recency_date == RecencyDate(dates)
      recency == [i \in 1..Len(sorted) |->
                    Recency(recency_date, sorted[i].last_purchase_date)]
      r_quartiles == Quartiles(recency)
      f_quartiles == Quartiles(Col(sorted, "order_count"))
      m_quartiles == Quartiles(Col(sorted, "total_price"))
      Row(i) ==
        LET r == r_score(recency[i], r_quartiles)
            f == f_score(sorted[i].order_count, f_quartiles)
            m == m_score(sorted[i].total_price, m_quartiles)
        IN [customer_unique_id |-> sorted[i].customer_id,
            last_purchase_date |-> sorted[i].last_purchase_date,
            freq |-> sorted[i].order_count,
            monetary |-> sorted[i].total_price,
            recency |-> recency[i],
            R_Score |-> r, F_Score |-> f, M_Score |-> m,
            RFM_Score |-> RFM_Score(r, f, m),
            Segment |-> rfm_segment(RFM_Score(r, f, m))]
  IN [i \in 1..Len(sorted) |-> Row(i)]

(***************************************************************************)
(* Lines 360-386: the segment filter and the summary per segment.          *)
(***************************************************************************)
\* the twelve labels in the order Python sorts their names
SegmentOrder ==
  <<"About To Sleep", "At Risk", "Cannot Lose Them", "Champions",
    "Hibernating Customers", "Lost Customers", "Loyal", "Need Attention",
    "New Customers", "Other", "Potential Loyalist", "Promising">>

SegmentRank(s) == CHOOSE i \in 1..Len(SegmentOrder) : SegmentOrder[i] = s

SegmentLess(a, b) == SegmentRank(a.Segment) < SegmentRank(b.Segment)

\* sorted(df_rfm['Segment'].unique()), the options of the multiselect
unique_segments == {df_rfm[i].Segment : i \in 1..Len(df_rfm)}

\* the filter with an empty selection read as no restriction
FilteredRfmEmptyIsAll(rfm, selected) ==
  IF selected = {} THEN rfm ELSE SelectSeq(rfm, LAMBDA r : r.Segment \in selected)

\* df_rfm[df_rfm['Segment'].isin(selected_segments)]
FilteredRfm(rfm, selected) == SelectSeq(rfm, LAMBDA r : r.Segment \in selected)

filtered_rfm == FilteredRfm(df_rfm, selected_segments)

\* pandas divides, multiplies and rounds in IEEE 754 doubles (float64).  A
\* positive double is kept as its 53-bit significand in three limbs a, b, c of
\* 17, 18 and 18 bits and the exponent e of its lowest bit:
\* (a * 2^36 + b * 2^18 + c) * 2^e with 2^16 <= a < 2^17.
LimbBits == 18
TopLimbBits == 17

RECURSIVE Pow2(_)
Pow2(n) == IF n = 0 THEN 1 ELSE 2 * Pow2(n - 1)

Limb == Pow2(LimbBits)

\* round to nearest, ties to even: one unit is added when the dropped bits are
\* more than half a unit (guard and sticky), or exactly half with c odd
RoundToDouble(a, b, c, e, guard, sticky) ==
  IF ~(guard /\ (sticky \/ c % 2 = 1)) THEN [a |-> a, b |-> b, c |-> c, e |-> e]
  ELSE IF c + 1 < Limb THEN [a |-> a, b |-> b, c |-> c + 1, e |-> e]
  ELSE IF b + 1 < Limb THEN [a |-> a, b |-> b + 1, c |-> 0, e |-> e]
  ELSE IF a + 1 < Pow2(TopLimbBits) THEN [a |-> a + 1, b |-> 0, c |-> 0, e |-> e]
  ELSE [a |-> Pow2(TopLimbBits - 1), b |-> 0, c |-> 0, e |-> e + 1]

RECURSIVE Doublings(_, _)
\* how often x is doubled to reach d
Doublings(x, d) == IF x >= d THEN 0 ELSE 1 + Doublings(2 * x, d)

RECURSIVE LongDivision(_, _, _, _)
\* n more bits of the quotient r / d behind the bits q; r is the remainder
\* doubled
LongDivision(r, d, n, q) ==
  IF n = 0 THEN [q |-> q, r |-> r]
  ELSE IF r >= d THEN LongDivision(2 * (r - d), d, n - 1, 2 * q + 1)
  ELSE LongDivision(2 * r, d, n - 1, 2 * q)

\* the double x / d of two whole numbers 0 < x <= d
DoubleDiv(x, d) ==
  LET s == Doublings(x, d)
      a == LongDivision(x * Pow2(s), d, TopLimbBits, 0)
      b == LongDivision(a.r, d, LimbBits, 0)
      c == LongDivision(b.r, d, LimbBits, 0)
      g == LongDivision(c.r, d, 1, 0)
  IN RoundToDouble(a.q, b.q, c.q, 0 - (TopLimbBits + 2 * LimbBits - 1) - s,
                   g.q = 1, g.r # 0)

\* the double v * k for a small whole number k
DoubleTimes(v, k) ==
  LET t0 == v.c * k
      t1 == v.b * k + t0 \div Limb
      t2 == v.a * k + t1 \div Limb
      b1 == t1 % Limb
      c1 == t0 % Limb
      sh == CHOOSE n \in 0..LimbBits :
              /\ Pow2(TopLimbBits - 1) <= t2 \div Pow2(n)
              /\ t2 \div Pow2(n) < Pow2(TopLimbBits)
      up == Pow2(LimbBits - sh)
      low == Pow2(sh)
      dropped == c1 % low
  IN IF sh = 0 THEN [a |-> t2, b |-> b1, c |-> c1, e |-> v.e]
     ELSE RoundToDouble(t2 \div low,
                        (t2 % low) * up + b1 \div low,
                        (b1 % low) * up + c1 \div low,
                        v.e + sh,
                        dropped >= low \div 2,
                        dropped % (low \div 2) # 0)

\* numpy's rint of a double below 2^16: the nearest whole number, a half
\* going to the even one
Rint(v) ==
  LET g == (0 - v.e) - 2 * LimbBits
      unit == Pow2(g)
      q == v.a \div unit
      rest == v.a % unit
      guard == rest >= unit \div 2
      sticky == rest % (unit \div 2) # 0 \/ v.b # 0 \/ v.c # 0
  IN IF g > TopLimbBits THEN 0
     ELSE IF guard /\ (sticky \/ q % 2 = 1) THEN q + 1 ELSE q

\* round((total_monetary / total_monetary_all) * 100, 2), in hundredths:
\* numpy rounds to 2 decimals as rint(v * 100) / 100, so the percent is
\* rint(((x / total) * 100) * 100) hundredths, every step a double
Percent(x, total) ==
  IF total = 0 THEN Frac(0, 0)
  ELSE IF x = 0 THEN Frac(0, 100)
  ELSE Frac(Rint(DoubleTimes(DoubleTimes(DoubleDiv(x, total), 100), 100)), 100)

\* the division without the test for max = min
ScalingUnguarded(x, lo, hi) == Frac(x - lo, hi - lo)

\* normalising by the maximum alone
ScalingByMax(x, lo, hi) == IF hi # 0 THEN Frac(x, hi) ELSE Frac(0, 1)

\* (x - min) / (max - min) if (max - min) != 0 else 0
Scaling(x, lo, hi) ==
  IF hi - lo # 0 THEN Frac(x - lo, hi - lo) ELSE Frac(0, 1)

Summary(rfm) ==
  LET Group(s) == SelectSeq(rfm, LAMBDA r : r.Segment = s)
      rows == {[Segment |-> s,
                customer_count |-> Len(Group(s)),
                total_monetary |->
                  SumSeq([i \in 1..Len(Group(s)) |-> Group(s)[i].monetary])]
               : s \in {r.Segment : r \in Range(rfm)}}
      grouped == SetToTable(rows, {p \in rows \X rows : SegmentLess(p[1], p[2])})
      totals == [i \in 1..Len(grouped) |-> grouped[i].total_monetary]
      total_monetary_all == SumSeq(totals)
  IN [i \in 1..Len(grouped) |->
        [Segment |-> grouped[i].Segment,
         customer_count |-> grouped[i].customer_count,
         total_monetary |-> grouped[i].total_monetary,
         total_monetary_percent |->
           Percent(grouped[i].total_monetary, total_monetary_all),
         total_monetary_scaling |->
           Scaling(grouped[i].total_monetary, Min(Range(totals)), Max(Range(totals)))]]

(***************************************************************************)
(* Lines 392-394: the Pareto form of the summary.                          *)
(***************************************************************************)
\* total_monetary.cumsum() / total_monetary.sum() * 100
CumulativePercent(totals, i) ==
  Frac(100 * SumSeq(SubSeq(totals, 1, i)), SumSeq(totals))

Pareto(summary) ==
  LET sorted == SortDescending(summary,
                  [i \in 1..Len(summary) |-> summary[i].total_monetary])
      totals == [i \in 1..Len(sorted) |-> sorted[i].total_monetary]
  IN [i \in 1..Len(sorted) |->
        [Segment |-> sorted[i].Segment,
         customer_count |-> sorted[i].customer_count,
         total_monetary |-> sorted[i].total_monetary,
         total_monetary_percent |-> sorted[i].total_monetary_percent,
         total_monetary_scaling |-> sorted[i].total_monetary_scaling,
         Cumulative_pct |-> CumulativePercent(totals, i)]]

(***************************************************************************)
(* The inputs of a run: filtered_orders and df_order_items.  Customer and  *)
(* order ids are opaque keys, so orders are numbered by their row and      *)
(* customers by first appearance.                                          *)
(***************************************************************************)
\* rows of the item table without their order_id
ItemA == [product_id |-> 1, shipping_limit_date |-> 1, price |-> 2, freight_value |-> 1]
ItemB == [product_id |-> 2, shipping_limit_date |-> 1, price |-> 1, freight_value |-> 0]

\* the item rows of one order: none, the same product twice, two products
ItemLists == {<<>>, <<ItemA, ItemA>>, <<ItemA, ItemB>>}

ItemRow(o, k) ==
  [order_id |-> o, product_id |-> k.product_id,
   shipping_limit_date |-> k.shipping_limit_date,
   price |-> k.price, freight_value |-> k.freight_value]

RECURSIVE ItemTable(_, _)
\* the item table in which order o has the rows lists[o], for o = from..Len
ItemTable(lists, from) ==
  IF from > Len(lists) THEN <<>>
  ELSE [i \in 1..Len(lists[from]) |-> ItemRow(from, lists[from][i])]
       \o ItemTable(lists, from + 1)

OrderRow(o, c, st, ts) ==
  [order_id |-> o, customer_id |-> c, order_status |-> st,
   order_purchase_timestamp |-> ts]

RECURSIVE OrderTables(_)
\* every orders table of n rows
OrderTables(n) ==
  IF n = 0 THEN {<<>>}
  ELSE UNION {
         {Append(t, OrderRow(n, c, st, ts)) :
            c \in 1..(Cardinality({r.customer_id : r \in Range(t)}) + 1),
            st \in Statuses, ts \in Timestamps \cup {NaT}}
         : t \in OrderTables(n - 1)}

\* small tables of every shape: up to MaxOrders orders, each with any status,
\* timestamp and item rows; items may belong to orders outside the filter
RawInputs ==
  {<<t, ItemTable(l, 1)>> :
     t \in UNION {OrderTables(n) : n \in 0..MaxOrders},
     l \in [1..MaxOrders -> ItemLists]}

\* order_count and total_price values of the larger populations
Frequencies == {1, 2}
Monetaries == {0, 1, 2}

ProfileLess(a, b) ==
  \/ a.freq > b.freq
  \/ /\ a.freq = b.freq
     /\ \/ a.last < b.last
        \/ (a.last = b.last /\ a.monetary < b.monetary)

Profiles == [last : Timestamps \cup {NaT}, freq : Frequencies, monetary : Monetaries]

ProfileList ==
  SetToTable(Profiles, {p \in Profiles \X Profiles : ProfileLess(p[1], p[2])})

RECURSIVE ProfileChoices(_, _)
\* the populations of n customers, as non-decreasing indices into ProfileList
ProfileChoices(n, from) ==
  IF n = 0 THEN {<<>>}
  ELSE UNION {{<<k>> \o t : t \in ProfileChoices(n - 1, k)} : k \in from..Len(ProfileList)}

RECURSIVE ProfileOrders(_, _, _)
\* delivered orders that give customer c of the population ps its profile
ProfileOrders(ps, c, next) ==
  IF c > Len(ps) THEN <<>>
  ELSE [i \in 1..ps[c].freq |-> OrderRow(next + i - 1, c, "delivered", ps[c].last)]
       \o ProfileOrders(ps, c + 1, next + ps[c].freq)

RECURSIVE ProfileItems(_, _, _)
\* one item row on the first order of every customer who paid anything
ProfileItems(ps, c, next) ==
  IF c > Len(ps) THEN <<>>
  ELSE (IF ps[c].monetary = 0 THEN <<>>
        ELSE <<[order_id |-> next, product_id |-> 1, shipping_limit_date |-> 1,
                price |-> ps[c].monetary, freight_value |-> 1]>>)
       \o ProfileItems(ps, c + 1, next + ps[c].freq)

\* larger populations of up to MaxCustomers customers with plain orders
ProfileInputs ==
  {<<ProfileOrders(ps, 1, 1), ProfileItems(ps, 1, 1)>> :
     ps \in {[i \in 1..Len(ch) |-> ProfileList[ch[i]]] :
               ch \in UNION {ProfileChoices(n, 1) : n \in 0..MaxCustomers}}}

\* the profiles of customers with a purchase date who paid something
PlainProfiles == [last : Timestamps, freq : Frequencies, monetary : Monetaries \ {0}]

\* populations of up to MaxScored such customers: with four customers or more
\* the breakpoints separate all five buckets of a dimension
ScoredInputs ==
  {<<ProfileOrders(ps, 1, 1), ProfileItems(ps, 1, 1)>> :
     ps \in {[i \in 1..Len(ch) |-> ProfileList[ch[i]]] :
               ch \in {c \in UNION {ProfileChoices(n, 1) : n \in 0..MaxScored} :
                         \A i \in 1..Len(c) : ProfileList[c[i]] \in PlainProfiles}}}

\* two customers whose totals 137 and 23 share a grand total of 160: the
\* smaller share is 14.375 percent, half way between two hundredths
HalfCentInputs ==
  LET ps == <<[last |-> 3, freq |-> 2, monetary |-> 137],
              [last |-> 0, freq |-> 1, monetary |-> 23]>>
  IN {<<ProfileOrders(ps, 1, 1), ProfileItems(ps, 1, 1)>>}

(***************************************************************************)
(* The run of the script.                                                  *)
(***************************************************************************)
Init ==
  /\ pc = "aggregate"
  /\ \E in \in RawInputs \cup ProfileInputs \cup ScoredInputs \cup HalfCentInputs :
       /\ filtered_orders = in[1]
       /\ df_order_items = in[2]
  /\ data_orders = <<>>
  /\ df_rfm = <<>>
  /\ selected_segments = {}
  /\ data_rfm_summary = <<>>
  /\ score = ""
  /\ segment = ""

\* lines 255-267
Aggregate ==
  /\ pc = "aggregate"
  /\ data_orders' = DataOrders(filtered_orders, df_order_items)
  /\ pc' = "rfm"
  /\ UNCHANGED <<filtered_orders, df_order_items, df_rfm, selected_segments,
                 data_rfm_summary, score, segment>>

\* lines 269-358
ComputeRfm ==
  /\ pc = "rfm"
  /\ df_rfm' = DfRfm(data_orders)
  /\ pc' = "select"
  /\ UNCHANGED <<filtered_orders, df_order_items, data_orders, selected_segments,
                 data_rfm_summary, score, segment>>

\* lines 360-386: the analyst picks any of the segments present and the
\* summary of the selected rows is built
Summarize ==
  /\ pc = "select"
  /\ \E sel \in SUBSET unique_segments :
       /\ selected_segments' = sel
       /\ data_rfm_summary' =
            Summary(FilteredRfm(df_rfm, sel))
  /\ pc' = "pareto"
  /\ UNCHANGED <<filtered_orders, df_order_items, data_orders, df_rfm,
                 score, segment>>

\* lines 392-394
ParetoSort ==
  /\ pc = "pareto"
  /\ data_rfm_summary' = Pareto(data_rfm_summary)
  /\ pc' = "done"
  /\ UNCHANGED <<filtered_orders, df_order_items, data_orders, df_rfm,
                 selected_segments, score, segment>>

Next == Aggregate \/ ComputeRfm \/ Summarize \/ ParetoSort

Spec == Init /\ [][Next]_vars

(***************************************************************************)
(* rfm_segment by itself: line 358 applies it to one code at a time.  The  *)
(* codes tried are all strings of three digits and a few other strings.    *)
(***************************************************************************)
Digits == 0..9

Codes ==
  {ToString(a) \o ToString(b) \o ToString(c) : a \in Digits, b \in Digits, c \in Digits}
  \cup {"", "5", "55", "5555", "abc"}

InitSegment ==
  /\ pc = "segment"
  /\ score \in Codes
  /\ segment = ""
  /\ filtered_orders = <<>>
  /\ df_order_items = <<>>
  /\ data_orders = <<>>
  /\ df_rfm = <<>>
  /\ selected_segments = {}
  /\ data_rfm_summary = <<>>

\* one element of df_rfm["RFM_Score"].apply(rfm_segment)
ApplySegment ==
  /\ pc = "segment"
  /\ segment' = rfm_segment(score)
  /\ pc' = "segmented"
  /\ UNCHANGED <<filtered_orders, df_order_items, data_orders, df_rfm,
                 selected_segments, data_rfm_summary, score>>

SpecSegment == InitSegment /\ [][ApplySegment]_vars

(***************************************************************************)
(* Properties.                                                             *)
(***************************************************************************)
Column(t, f) == [i \in 1..Len(t) |-> t[i][f]]

\* ComputeRfm has just run; df_rfm is not written again after it
Scored == pc = "select"

\* the number of breakpoints of q that are <= value
BreakpointsAtMost(q, value) ==
  Cardinality({k \in 1..4 : q[k].den > 0 /\ q[k].num <= value * q[k].den})

\* q20 <= q40 <= q60 <= q80
Ascending(q) ==
  \A k \in 1..3 : q[k].den > 0 /\ q[k + 1].den > 0
                  /\ q[k].num * q[k + 1].den <= q[k + 1].num * q[k].den

\* C1: for every customer of a non-empty population, with the 0.2/0.4/0.6/0.8
\* interpolated quantiles of each dimension in ascending order, the frequency
\* and monetary scores are 1 + the number of breakpoints <= the raw value and
\* the recency score is 5 - the number of recency breakpoints <= recency, so
\* a value equal to a breakpoint falls in the bucket above it.
C1_ScoreIsBreakpointCount ==
  (Scored /\ df_rfm # <<>>) =>
    LET rq == Quartiles(Column(df_rfm, "recency"))
        fq == Quartiles(Column(df_rfm, "freq"))
        mq == Quartiles(Column(df_rfm, "monetary"))
    IN /\ Ascending(rq) /\ Ascending(fq) /\ Ascending(mq)
       /\ \A i \in 1..Len(df_rfm) :
            /\ df_rfm[i].F_Score = 1 + BreakpointsAtMost(fq, df_rfm[i].freq)
            /\ df_rfm[i].M_Score = 1 + BreakpointsAtMost(mq, df_rfm[i].monetary)
            /\ df_rfm[i].R_Score = 5 - BreakpointsAtMost(rq, df_rfm[i].recency)

\* value lies exactly on breakpoint k of q, and k is not the lowest breakpoint
\* with that value nor are all four breakpoints equal
OnBreakpoint(q, value, k) ==
  /\ q[k].num = value * q[k].den
  /\ q[1].num * q[4].den < q[4].num * q[1].den

\* a population of four in which, in each of the three dimensions, a customer
\* sits exactly on a breakpoint that is not shared by all four and is scored
\* into the bucket above it: frequencies 1, 1, 2, 2 put the lower two on the
\* 0.2 breakpoint alone (score 2), monetaries 1, 1, 1, 2 put the lower three
\* on the 0.2, 0.4 and 0.6 breakpoints (score 4), recencies 1, 1, 2, 2 give
\* the recent two the recency score 4
C1_Witness ==
  /\ Scored /\ Len(df_rfm) = 4
  /\ LET rq == Quartiles(Column(df_rfm, "recency"))
         fq == Quartiles(Column(df_rfm, "freq"))
         mq == Quartiles(Column(df_rfm, "monetary"))
     IN /\ \E i \in 1..Len(df_rfm) :
             /\ OnBreakpoint(fq, df_rfm[i].freq, 1)
             /\ BreakpointsAtMost(fq, df_rfm[i].freq) = 1
             /\ df_rfm[i].F_Score = 2
        /\ \E i \in 1..Len(df_rfm) :
             /\ OnBreakpoint(mq, df_rfm[i].monetary, 3)
             /\ BreakpointsAtMost(mq, df_rfm[i].monetary) = 3
             /\ df_rfm[i].M_Score = 4
        /\ \E i \in 1..Len(df_rfm) :
             /\ OnBreakpoint(rq, df_rfm[i].recency, 1)
             /\ BreakpointsAtMost(rq, df_rfm[i].recency) = 1
             /\ df_rfm[i].R_Score = 4

\* the table of the specification, section 6
SpecTable ==
  <<[name |-> "Champions", codes |-> {"555", "554", "545", "544", "455", "445"}],
    [name |-> "Loyal",
     codes |-> {"543", "444", "435", "355", "354", "345", "344", "335"}],
    [name |-> "Potential Loyalist",
     codes |-> {"553", "551", "552", "541", "542", "533", "532", "531", "452", "451",
                "442", "441", "431", "453", "433", "432", "423", "353", "352", "351",
                "342", "341", "333", "323"}],
    [name |-> "Promising",
     codes |-> {"525", "524", "523", "522", "521", "515", "514", "513", "425", "424",
                "413", "414", "415", "315", "314", "313"}],
    [name |-> "New Customers",
     codes |-> {"512", "511", "422", "421", "412", "411", "311"}],
    [name |-> "Need Attention",
     codes |-> {"535", "534", "443", "434", "343", "334", "325", "324"}],
    [name |-> "About To Sleep",
     codes |-> {"331", "321", "312", "221", "213", "231", "241", "251"}],
    [name |-> "At Risk",
     codes |-> {"255", "254", "245", "244", "243", "252", "242", "235", "234", "225",
                "224", "153", "152", "145", "143", "142", "135", "134", "133", "125",
                "124"}],
    [name |-> "Cannot Lose Them",
     codes |-> {"155", "154", "144", "214", "215", "115", "114", "113"}],
    [name |-> "Hibernating Customers",
     codes |-> {"332", "322", "233", "232", "223", "222", "132", "123", "122", "212",
                "211"}],
    [name |-> "Lost Customers",
     codes |-> {"111", "112", "121", "131", "141", "151"}]>>

\* the code lists of rfm_segment in the order its branches test them
CodeLists ==
  <<ChampionsCodes, LoyalCodes, PotentialLoyalistCodes, PromisingCodes,
    NewCustomersCodes, NeedAttentionCodes, AboutToSleepCodes, AtRiskCodes,
    CannotLoseThemCodes, HibernatingCodes, LostCustomersCodes>>

\* C2: rfm_segment returns, for a code listed in a row of the table of section
\* 6, that row's name and for any other string "Other"; the eleven code lists
\* of the code are pairwise disjoint, so no code depends on the order of the
\* branches; the result is one of the twelve labels and never empty.
C2_SegmentTable ==
  /\ \A a, b \in 1..Len(CodeLists) : a # b => CodeLists[a] \cap CodeLists[b] = {}
  /\ pc = "segmented" =>
       /\ \A t \in 1..Len(SpecTable) :
            score \in SpecTable[t].codes => segment = SpecTable[t].name
       /\ (\A t \in 1..Len(SpecTable) : score \notin SpecTable[t].codes)
            => segment = "Other"
       /\ segment \in Range(SegmentOrder)
       /\ segment # ""

\* a code of the Loyal row has been classified
C2_Witness == pc = "segmented" /\ score = "345" /\ segment = "Loyal"

Digit == <<"1", "2", "3", "4", "5">>

\* C3: in every RFM record of a non-empty population the three scores are in
\* 1..5 and rfm_code is the three characters: recency digit, frequency digit,
\* monetary digit, in that order.
C3_ScoresAndCode ==
  Scored =>
    \A i \in 1..Len(df_rfm) :
      /\ df_rfm[i].R_Score \in 1..5
      /\ df_rfm[i].F_Score \in 1..5
      /\ df_rfm[i].M_Score \in 1..5
      /\ Len(df_rfm[i].RFM_Score) = 3
      /\ df_rfm[i].RFM_Score =
           Digit[df_rfm[i].R_Score] \o Digit[df_rfm[i].F_Score] \o Digit[df_rfm[i].M_Score]

\* a record whose three scores all differ, so that the order of the digits shows
C3_Witness ==
  /\ Scored
  /\ \E i \in 1..Len(df_rfm) :
       /\ df_rfm[i].R_Score = 1 /\ df_rfm[i].F_Score = 3 /\ df_rfm[i].M_Score = 5
       /\ df_rfm[i].RFM_Score = "135"

\* Aggregate has just run; data_orders is not written again after it
Aggregated == pc = "rfm"

\* the order_ids of customer c's delivered orders in filtered_orders
DeliveredOrderIds(c) ==
  {o.order_id : o \in {x \in Range(filtered_orders) :
                         x.customer_id = c /\ x.order_status = "delivered"}}

\* the rows of the item table that belong to customer c's delivered orders
DeliveredItems(c) ==
  SelectSeq(df_order_items, LAMBDA it : it.order_id \in DeliveredOrderIds(c))

\* C4 as amended: for every customer of data_orders, and of df_rfm after it,
\* the monetary value is the sum of price alone over all item rows of all of
\* the customer's delivered orders; freight_value is not part of it.
C4_MonetaryIsSumOfPrice ==
  /\ Aggregated =>
       \A i \in 1..Len(data_orders) :
         data_orders[i].total_price =
           SumSeq(Column(DeliveredItems(data_orders[i].customer_id), "price"))
  /\ Scored =>
       \A i \in 1..Len(df_rfm) :
         df_rfm[i].monetary =
           SumSeq(Column(DeliveredItems(df_rfm[i].customer_unique_id), "price"))

\* C4 as stated: the monetary value is the sum of price + freight_value.
C4_MonetaryIsSumOfPricePlusFreight ==
  /\ Aggregated =>
       \A i \in 1..Len(data_orders) :
         LET items == DeliveredItems(data_orders[i].customer_id) IN
         data_orders[i].total_price =
           SumSeq(Column(items, "price")) + SumSeq(Column(items, "freight_value"))
  /\ Scored =>
       \A i \in 1..Len(df_rfm) :
         LET items == DeliveredItems(df_rfm[i].customer_unique_id) IN
         df_rfm[i].monetary =
           SumSeq(Column(items, "price")) + SumSeq(Column(items, "freight_value"))

\* a customer with two delivered orders of two item rows each, freight charged
C4_Witness ==
  /\ Scored
  /\ \E i \in 1..Len(df_rfm) :
       LET items == DeliveredItems(df_rfm[i].customer_unique_id) IN
       /\ df_rfm[i].freq = 2
       /\ Len(items) = 4
       /\ SumSeq(Column(items, "freight_value")) > 0
       /\ df_rfm[i].monetary = SumSeq(Column(items, "price"))

\* C5: the anchor is the latest last_purchase_date of the population plus one
\* day; recency_days is the whole number of days from last_purchase_date to
\* the anchor, never negative and exactly 1 for the most recent purchaser; a
\* customer without last_purchase_date stays in the table with recency 0.
C5_Recency ==
  Scored =>
    LET present == Range(Column(data_orders, "last_purchase_date")) \ {NaT}
        anchor == Max(present) + TicksPerDay
    IN /\ {df_rfm[i].customer_unique_id : i \in 1..Len(df_rfm)}
            = {data_orders[i].customer_id : i \in 1..Len(data_orders)}
       /\ Len(df_rfm) = Len(data_orders)
       /\ \A i \in 1..Len(df_rfm) :
            /\ df_rfm[i].recency >= 0
            /\ df_rfm[i].last_purchase_date = NaT => df_rfm[i].recency = 0
            /\ df_rfm[i].last_purchase_date # NaT =>
                 /\ df_rfm[i].recency * TicksPerDay
                      <= anchor - df_rfm[i].last_purchase_date
                 /\ anchor - df_rfm[i].last_purchase_date
                      < (df_rfm[i].recency + 1) * TicksPerDay
                 /\ df_rfm[i].last_purchase_date = Max(present)
                      => df_rfm[i].recency = 1

\* a population with the most recent purchaser, a customer two and a half days
\* behind the anchor and a customer without last_purchase_date
C5_Witness ==
  /\ Scored
  /\ \E i, j, k \in 1..Len(df_rfm) :
       /\ df_rfm[i].last_purchase_date = 3 /\ df_rfm[i].recency = 1
       /\ df_rfm[j].last_purchase_date = 0 /\ df_rfm[j].recency = 2
       /\ df_rfm[k].last_purchase_date = NaT /\ df_rfm[k].recency = 0

\* C6: data_orders has exactly one row per customer with a delivered order in
\* filtered_orders and none for any other customer; order_count is the number
\* of distinct delivered order_ids of the customer, at least 1, however many
\* item rows the orders join to.
C6_OneRowPerDeliveredCustomer ==
  Aggregated =>
    /\ {data_orders[i].customer_id : i \in 1..Len(data_orders)}
         = {o.customer_id : o \in {x \in Range(filtered_orders) :
                                     x.order_status = "delivered"}}
    /\ \A i, j \in 1..Len(data_orders) :
         data_orders[i].customer_id = data_orders[j].customer_id => i = j
    /\ \A i \in 1..Len(data_orders) :
         /\ data_orders[i].order_count
              = Cardinality(DeliveredOrderIds(data_orders[i].customer_id))
         /\ data_orders[i].order_count >= 1

\* one customer whose single delivered order joins to two item rows, beside a
\* customer whose only order was canceled
C6_Witness ==
  /\ Aggregated
  /\ Len(data_orders) = 1
  /\ data_orders[1].order_count = 1
  /\ Len(MergeLeft(SelectSeq(filtered_orders,
                             LAMBDA o : o.customer_id = data_orders[1].customer_id),
                   df_order_items_(df_order_items))) = 2
  /\ \E o \in Range(filtered_orders) :
       o.customer_id # data_orders[1].customer_id /\ o.order_status = "canceled"

\* Summarize has just run: data_rfm_summary is the grouped form
Summarized == pc = "pareto"

\* ParetoSort has run: data_rfm_summary is the Pareto form
Sorted == pc = "done"

SummaryTotals == Column(data_rfm_summary, "total_monetary")

\* x is a number and equals a / b
IsQuotient(x, a, b) == x.den # 0 /\ b # 0 /\ x.num * b = a * x.den

\* |x - a / b| <= 1/200, i.e. x is a / b rounded to 2 decimals, a >= 0, b > 0
IsRoundedTo2(x, a, b) ==
  /\ x.den = 100 /\ b # 0
  /\ 2 * (x.num * b - 100 * a) <= b
  /\ 2 * (100 * a - x.num * b) <= b

\* C7: in every summary with at least one row, each total_monetary_percent is
\* 100 * total_monetary / grand total rounded to 2 decimals and the percents
\* sum to 100.00 within 0.01 per row.
C7_PercentsSumTo100 ==
  (Summarized /\ data_rfm_summary # <<>>) =>
    LET n == Len(data_rfm_summary)
        total == SumSeq(SummaryTotals)
        percents == Column(data_rfm_summary, "total_monetary_percent")
        hundredths == SumSeq([i \in 1..n |-> percents[i].num])
    IN /\ \A i \in 1..n :
            IsRoundedTo2(percents[i], 100 * SummaryTotals[i], total)
       /\ hundredths - 10000 <= n
       /\ 10000 - hundredths <= n

\* the same for the summaries whose grand total is not zero
C7_PercentsSumTo100IfTotalPositive ==
  (Summarized /\ SumSeq(SummaryTotals) # 0) => C7_PercentsSumTo100

\* C8: in the Pareto form the rows are in descending order of total_monetary,
\* cumulative_percent of row i is 100 * (total_monetary of rows 1..i) / (total
\* of all rows), it never decreases and it is 100 at the last row.
C8_ParetoCumulative ==
  Sorted =>
    LET n == Len(data_rfm_summary)
        cum == Column(data_rfm_summary, "Cumulative_pct")
    IN /\ \A i \in 1..(n - 1) : SummaryTotals[i] >= SummaryTotals[i + 1]
       /\ \A i \in 1..n :
            IsQuotient(cum[i], 100 * SumSeq(SubSeq(SummaryTotals, 1, i)),
                       SumSeq(SummaryTotals))
       /\ \A i \in 1..(n - 1) :
            cum[i].num * cum[i + 1].den <= cum[i + 1].num * cum[i].den
       /\ n >= 1 => IsQuotient(cum[n], 100, 1)

\* the same for the summaries whose grand total is not zero
C8_ParetoCumulativeIfTotalPositive ==
  (Sorted /\ SumSeq(SummaryTotals) # 0) => C8_ParetoCumulative

\* C9: total_monetary_scaled is (total_monetary - min) / (max - min) over the
\* rows of the summary, within [0, 1], 0 at the minimum and 1 at the maximum;
\* when max = min (a single segment included) it is the number 0 in every row.
C9_MinMaxScaling ==
  Summarized =>
    \A i \in 1..Len(data_rfm_summary) :
      LET lo == Min(Range(SummaryTotals))
          hi == Max(Range(SummaryTotals))
          x == data_rfm_summary[i].total_monetary_scaling
      IN /\ x.den > 0
         /\ 0 <= x.num /\ x.num <= x.den
         /\ hi # lo =>
              /\ IsQuotient(x, SummaryTotals[i] - lo, hi - lo)
              /\ SummaryTotals[i] = lo => x.num = 0
              /\ SummaryTotals[i] = hi => x.num = x.den
         /\ hi = lo => x.num = 0

\* two segments tie on a total that is not zero and both are scaled to 0
C9_Witness ==
  /\ Summarized
  /\ Len(data_rfm_summary) = 2
  /\ SummaryTotals[1] = SummaryTotals[2]
  /\ SummaryTotals[1] > 0
  /\ \A i \in 1..2 : data_rfm_summary[i].total_monetary_scaling.num = 0
                     /\ data_rfm_summary[i].total_monetary_scaling.den > 0

\* all customers of the population have the same monetary total
IdenticalMonetary ==
  \A i, j \in 1..Len(df_rfm) : df_rfm[i].monetary = df_rfm[j].monetary

\* C10 as stated: when all customers have identical monetary totals,
\* total_monetary_scaled is 0 in every row of the summary.
C10_IdenticalMonetaryScalesToZero ==
  (Summarized /\ IdenticalMonetary) =>
    \A i \in 1..Len(data_rfm_summary) :
      /\ data_rfm_summary[i].total_monetary_scaling.num = 0
      /\ data_rfm_summary[i].total_monetary_scaling.den # 0

\* C10 as amended: when all customers have identical monetary totals and all
\* segments of the summary hold the same number of customers,
\* total_monetary_scaled is 0 in every row of the summary.
C10_IdenticalMonetaryEqualCountsScaleToZero ==
  (/\ Summarized /\ IdenticalMonetary
   /\ \A i, j \in 1..Len(data_rfm_summary) :
        data_rfm_summary[i].customer_count = data_rfm_summary[j].customer_count) =>
    \A i \in 1..Len(data_rfm_summary) :
      /\ data_rfm_summary[i].total_monetary_scaling.num = 0
      /\ data_rfm_summary[i].total_monetary_scaling.den # 0

\* three customers who paid the same in three segments of one customer each
C10_Witness ==
  /\ Summarized /\ IdenticalMonetary
  /\ Len(df_rfm) = 3 /\ df_rfm[1].monetary > 0
  /\ Len(data_rfm_summary) = 3
  /\ \A i \in 1..3 : /\ data_rfm_summary[i].customer_count = 1
                     /\ data_rfm_summary[i].total_monetary_scaling.num = 0

\* the summary has one row for each segment of sel that occurs in df_rfm, and
\* the row counts and sums exactly the RFM records of that segment
SummaryCovers(sel) ==
  /\ {data_rfm_summary[i].Segment : i \in 1..Len(data_rfm_summary)}
       = sel \cap unique_segments
  /\ \A i, j \in 1..Len(data_rfm_summary) :
       data_rfm_summary[i].Segment = data_rfm_summary[j].Segment => i = j
  /\ \A i \in 1..Len(data_rfm_summary) :
       LET records == SelectSeq(df_rfm,
                        LAMBDA r : r.Segment = data_rfm_summary[i].Segment)
       IN /\ data_rfm_summary[i].customer_count = Len(records)
          /\ data_rfm_summary[i].total_monetary = SumSeq(Column(records, "monetary"))

\* C11 as stated: the summary covers exactly the RFM records whose segment is
\* selected, and with an empty selection it covers every segment present.
C11_EmptySelectionIsAll ==
  Summarized =>
    SummaryCovers(IF selected_segments = {} THEN unique_segments
                  ELSE selected_segments)

\* C11 as amended: the summary covers exactly the RFM records whose segment is
\* selected; with an empty selection it has no row, and with every segment
\* present selected it covers the whole population.
C11_SummaryOfSelection ==
  Summarized =>
    /\ SummaryCovers(selected_segments)
    /\ selected_segments = {} => data_rfm_summary = <<>>
    /\ selected_segments = unique_segments =>
         SumSeq(Column(data_rfm_summary, "customer_count")) = Len(df_rfm)

\* nothing is selected out of a population of two segments
C11_Witness ==
  /\ Summarized
  /\ Cardinality(unique_segments) = 2
  /\ selected_segments = {}
  /\ data_rfm_summary = <<>>

\* the filters have left no delivered order
NoDelivered == \A o \in Range(filtered_orders) : o.order_status # "delivered"

\* C12: when the filters leave zero delivered orders every stage yields and the
\* customer order profile table, the RFM record table and the segment summary,
\* grouped and in Pareto form, are all empty.
C12_EmptyPopulation ==
  NoDelivered =>
    /\ pc \in {"rfm", "select", "pareto", "done"} => data_orders = <<>>
    /\ pc \in {"select", "pareto", "done"} =>
         /\ df_rfm = <<>>
         /\ RecencyDate(Column(df_rfm, "last_purchase_date")) = NaT
         /\ \A k \in 1..4 : IsNaN(Quartiles(Column(df_rfm, "recency"))[k])
         /\ unique_segments = {}
    /\ pc \in {"pareto", "done"} => data_rfm_summary = <<>>

\* the pipeline has run to its end on two canceled orders
C12_Witness ==
  /\ pc = "done"
  /\ Len(filtered_orders) = 2 /\ NoDelivered
  /\ df_order_items # <<>>
  /\ data_orders = <<>> /\ df_rfm = <<>> /\ data_rfm_summary = <<>>

\* every customer has the same raw value in column f
Identical(f) == \A i, j \in 1..Len(df_rfm) : df_rfm[i][f] = df_rfm[j][f]

\* the four breakpoints of column f all equal the value of its first row
BreakpointsCollapse(f) ==
  \A k \in 1..4 :
    LET q == Quartiles(Column(df_rfm, f))[k]
    IN q.den # 0 /\ q.num = df_rfm[1][f] * q.den

\* when column f is identical, its breakpoints collapse and every score is s
DegenerateScore(f, scoreField, s) ==
  (Scored /\ df_rfm # <<>> /\ Identical(f)) =>
    /\ BreakpointsCollapse(f)
    /\ \A i \in 1..Len(df_rfm) : df_rfm[i][scoreField] = s

\* C13 as stated: if all customers have the same raw value in a dimension, the
\* four breakpoints equal that value and every score of the dimension is the
\* "below the 0.2-quantile" case: 1 for frequency and monetary, 5 for recency.
C13_IdenticalValuesScoreBelow ==
  /\ DegenerateScore("freq", "F_Score", 1)
  /\ DegenerateScore("monetary", "M_Score", 1)
  /\ DegenerateScore("recency", "R_Score", 5)

\* C13 as amended: if all customers have the same raw value in a dimension, the
\* four breakpoints equal that value and every score of the dimension is the
\* "at or above the 0.8-quantile" case: 5 for frequency and monetary, 1 for
\* recency.
C13_IdenticalValuesScoreTop ==
  /\ DegenerateScore("freq", "F_Score", 5)
  /\ DegenerateScore("monetary", "M_Score", 5)
  /\ DegenerateScore("recency", "R_Score", 1)

\* three customers alike in recency, frequency and monetary
C13_Witness ==
  /\ Scored /\ Len(df_rfm) = 3
  /\ Identical("freq") /\ Identical("monetary") /\ Identical("recency")
  /\ df_rfm[1].monetary > 0
  /\ \A i \in 1..3 : df_rfm[i].RFM_Score = "155"

\* the codes that scores in 1..5 can form
ReachableCodes ==
  {Digit[a] \o Digit[b] \o Digit[c] : a \in 1..5, b \in 1..5, c \in 1..5}

\* C14: of the 125 codes that scores in 1..5 can form, rfm_segment returns
\* "Other" for exactly "253" and "454"; every other such code gets one of the
\* eleven named segments.
C14_OtherOnlyFor253And454 ==
  /\ Cardinality(ReachableCodes) = 125
  /\ (pc = "segmented" /\ score \in ReachableCodes) =>
       /\ segment = "Other" <=> score \in {"253", "454"}
       /\ score \notin {"253", "454"} => segment \in Range(SegmentOrder) \ {"Other"}

\* a code of scores in 1..5 that no list holds has been classified
C14_Witness == pc = "segmented" /\ score = "454" /\ segment = "Other"

====
